---- MODULE Spec2Model ----
(***************************************************************************)
(* A model of the LLVM IR object model of package ir: the Function with    *)
(* its basic blocks and local-ID counter, the memory instructions (alloca, *)
(* load, store, getelementptr) and the binary16 conversions of package     *)
(* floats.                                                                 *)
(***************************************************************************)
EXTENDS Integers, Sequences, FiniteSets, TLC

VARIABLES
    f,          \* the Function object: name, sig, blocks, localID
    blk,        \* the heap of BasicBlock objects: name, parent, insts
    ret,        \* the value returned by the last call on the Function
    argSrc,     \* the source value a memory instruction is built from
    argIndices, \* the element indices a getelementptr is built from
    inst,       \* the instruction object the last constructor returned
    panicked,   \* the panic the last constructor raised, or "none"
    binsts,     \* the instruction list of the basic block under construction
    hbits,      \* a binary16 bit pattern
    f32,        \* the result of Float32()
    f64         \* the result of Float64()

fnVars == <<f, blk, ret>>
memVars == <<argSrc, argIndices, inst, panicked, binsts>>
fltVars == <<hbits, f32, f64>>
vars == <<f, blk, ret, argSrc, argIndices, inst, panicked, binsts, hbits, f32, f64>>

(***************************************************************************)
(* Bounds.                                                                 *)
(***************************************************************************)
NBlocks == 2
MaxParams == 2

BlockIds == 1..NBlocks

(***************************************************************************)
(* Names are Go strings, modelled as sequences of characters; the empty    *)
(* string is the name of an unnamed entity.                                *)
(***************************************************************************)
Unnamed == <<>>
EntryName == <<"e", "n", "t", "r", "y">>
XName == <<"x">>

Digits == <<"0", "1", "2", "3", "4", "5", "6", "7", "8", "9">>

RECURSIVE Itoa(_)
Itoa(n) ==
    IF n < 10 THEN <<Digits[n + 1]>>
    ELSE Itoa(n \div 10) \o <<Digits[(n % 10) + 1]>>

(***************************************************************************)
(* Go slices: a nil slice and an empty non-nil slice both have length 0    *)
(* and differ under "== nil".                                              *)
(***************************************************************************)
NilSlice == [isNil |-> TRUE, elems |-> <<>>]
MkSlice(s) == [isNil |-> FALSE, elems |-> s]
append(s, x) == [isNil |-> FALSE, elems |-> Append(s.elems, x)]

Range(s) == {s[i] : i \in 1..Len(s)}
NoDup(s) == \A i, j \in 1..Len(s) : i # j => s[i] # s[j]

RECURSIVE SeqsUpTo(_, _)
SeqsUpTo(S, n) ==
    IF n = 0 THEN {<<>>}
    ELSE LET shorter == SeqsUpTo(S, n - 1)
         IN  shorter \cup {Append(s, x) : s \in {t \in shorter : Len(t) = n - 1}, x \in S}

(***************************************************************************)
(* Instructions inside a block, as far as identifier assignment sees them: *)
(* the opcode and the name.  A store is no named value and has no name.    *)
(***************************************************************************)
ULoad == [op |-> "load", name |-> Unnamed]
UAlloca == [op |-> "alloca", name |-> Unnamed]
NAlloca == [op |-> "alloca", name |-> XName]
AStore == [op |-> "store", name |-> Unnamed]

InstLists ==
    { <<>>,
      <<AStore, ULoad>>,
      <<ULoad, NAlloca, UAlloca>> }

BlockNames == {Unnamed, EntryName}

(***************************************************************************)
(* Function signatures (types.Func): parameter types, result type and the  *)
(* variadic flag.  A type is rendered by its String method as one token.   *)
(***************************************************************************)
ParamTypes == {"i8*", "i32"}

Sigs ==
    [params : SeqsUpTo(ParamTypes, MaxParams), result : {"i32"}, variadic : BOOLEAN]

PrintfSig == [params |-> <<"i8*">>, result |-> "i32", variadic |-> TRUE]

NoRet == [kind |-> "none", text |-> <<>>]
NilError == [kind |-> "error", text |-> <<>>]
VoidRet == [kind |-> "void", text |-> <<>>]
TextRet(t) == [kind |-> "text", text |-> t]

(***************************************************************************)
(* NewFunction: name and signature; no blocks, counter 0.                  *)
(***************************************************************************)
NewFunction(name, sig) ==
    [name |-> name, sig |-> sig, blocks |-> NilSlice, localID |-> 0]

NewBlock(name, insts) == [name |-> name, parent |-> "none", insts |-> insts]

(***************************************************************************)
(* nextID: the decimal string of the counter, and the counter incremented. *)
(***************************************************************************)
nextIDNoIncrement(localID) == [id |-> Itoa(localID), localID |-> localID]

nextIDFromOne(localID) == [id |-> Itoa(localID + 1), localID |-> localID + 1]

nextID(localID) == [id |-> Itoa(localID), localID |-> localID + 1]

(***************************************************************************)
(* BasicBlock.assignIDs: the block first, then its instructions in order;  *)
(* an entity with a name is skipped, a store is no named value.            *)
(***************************************************************************)
IsNamedValue(i) == i.op # "store"

RECURSIVE instsAssignIDs(_, _, _)
instsAssignIDs(insts, i, localID) ==
    IF i > Len(insts) THEN [insts |-> insts, localID |-> localID]
    ELSE IF IsNamedValue(insts[i]) /\ insts[i].name = Unnamed
         THEN LET n == nextID(localID)
              IN  instsAssignIDs([insts EXCEPT ![i].name = n.id], i + 1, n.localID)
         ELSE instsAssignIDs(insts, i + 1, localID)

assignIDs(block, localID) ==
    LET n == IF block.name = Unnamed
             THEN nextID(localID)
             ELSE [id |-> block.name, localID |-> localID]
        r == instsAssignIDs(block.insts, 1, n.localID)
    IN  [block |-> [block EXCEPT !.name = n.id, !.insts = r.insts],
         localID |-> r.localID]

(***************************************************************************)
(* The loop of Function.AssignIDs over f.blocks; the blocks are pointers   *)
(* into the heap, so each block is updated in place.                       *)
(***************************************************************************)
RECURSIVE AssignIDsLoop(_, _, _, _)
AssignIDsLoop(heap, blocks, i, localID) ==
    IF i > Len(blocks) THEN [blk |-> heap, localID |-> localID]
    ELSE LET r == assignIDs(heap[blocks[i]], localID)
         IN  AssignIDsLoop([heap EXCEPT ![blocks[i]] = r.block], blocks, i + 1, r.localID)

(***************************************************************************)
(* Function.String.                                                        *)
(***************************************************************************)
RECURSIVE paramsLoop(_, _, _)
paramsLoop(params, i, buf) ==
    IF i > Len(params) THEN buf
    ELSE paramsLoop(params, i + 1,
                    (IF i > 1 THEN Append(buf, ", ") ELSE buf) \o <<params[i]>>)

ParamsBufAlwaysComma(sig) ==
    LET buf == paramsLoop(sig.params, 1, <<>>)
    IN  IF sig.variadic THEN buf \o <<", ", "...">> ELSE buf

ParamsBuf(sig) ==
    LET buf == paramsLoop(sig.params, 1, <<>>)
    IN  IF sig.variadic
        THEN (IF Len(sig.params) > 0 THEN Append(buf, ", ") ELSE buf) \o <<"...">>
        ELSE buf

ValueString(fn) == <<"@", fn.name>>

SigText(fn) ==
    <<fn.sig.result, " ">> \o ValueString(fn) \o <<"(">> \o ParamsBuf(fn.sig) \o <<")">>

\* BasicBlock.String, the text of one block (no line break inside the token).
BlockText(b) == <<"<block 1>", "<block 2>", "<block 3>", "<block 4>">>[b]

RECURSIVE blockLines(_, _)
blockLines(blocks, i) ==
    IF i > Len(blocks) THEN <<>>
    ELSE <<BlockText(blocks[i]), "\n">> \o blockLines(blocks, i + 1)

FunctionStringByLen(fn) ==
    IF Len(fn.blocks.elems) = 0 THEN <<"declare ">> \o SigText(fn)
    ELSE <<"define ">> \o SigText(fn) \o <<" {\n">>
         \o blockLines(fn.blocks.elems, 1) \o <<"}">>

FunctionString(fn) ==
    IF fn.blocks.isNil THEN <<"declare ">> \o SigText(fn)
    ELSE <<"define ">> \o SigText(fn) \o <<" {\n">>
         \o blockLines(fn.blocks.elems, 1) \o <<"}">>

(***************************************************************************)
(* The operations on a Function.                                           *)
(***************************************************************************)
\* A block list a caller passes: nil, or a slice of distinct blocks.
BlockSlices ==
    {NilSlice} \cup {MkSlice(s) : s \in {t \in SeqsUpTo(BlockIds, NBlocks) : NoDup(t)}}

SetBlocks(blocks) ==
    LET heap == [b \in BlockIds |->
                    IF b \in Range(blocks.elems)
                    THEN [blk[b] EXCEPT !.parent = "f"] ELSE blk[b]]
        r == AssignIDsLoop(heap, blocks.elems, 1, f.localID)
    IN  /\ f' = [f EXCEPT !.blocks = blocks, !.localID = r.localID]
        /\ blk' = r.blk
        /\ ret' = NilError
        /\ UNCHANGED <<memVars, fltVars>>

AppendBlockAssigning(block) ==
    LET heap == [blk EXCEPT ![block].parent = "f"]
        r == AssignIDsLoop(heap, Append(f.blocks.elems, block), 1, f.localID)
    IN  /\ block \notin Range(f.blocks.elems)
        /\ f' = [f EXCEPT !.blocks = append(f.blocks, block), !.localID = r.localID]
        /\ blk' = r.blk
        /\ ret' = VoidRet
    /\ UNCHANGED <<memVars, fltVars>>
        /\ UNCHANGED <<memVars, fltVars>>

AppendBlock(block) ==
    /\ block \notin Range(f.blocks.elems)
    /\ blk' = [blk EXCEPT ![block].parent = "f"]
    /\ f' = [f EXCEPT !.blocks = append(f.blocks, block)]
    /\ ret' = VoidRet
    /\ UNCHANGED <<memVars, fltVars>>

AssignIDs ==
    LET r == AssignIDsLoop(blk, f.blocks.elems, 1, f.localID)
    IN  /\ f' = [f EXCEPT !.localID = r.localID]
        /\ blk' = r.blk
        /\ ret' = NilError
        /\ UNCHANGED <<memVars, fltVars>>

String ==
    /\ ret' = TextRet(FunctionString(f))
    /\ UNCHANGED <<f, blk, memVars, fltVars>>

(***************************************************************************)
(* The Function's life: NewFunction, then any calls.                       *)
(***************************************************************************)
InitFnWith(sigs, heaps) ==
    /\ f \in {NewFunction("printf", s) : s \in sigs}
    /\ blk \in heaps
    /\ ret = NoRet

AllHeaps == [BlockIds -> {NewBlock(n, l) : n \in BlockNames, l \in InstLists}]
OneHeap == {[b \in BlockIds |-> NewBlock(Unnamed, <<ULoad>>)]}

\* Attaching blocks and assigning identifiers.
NextIDs ==
    \/ \E blocks \in BlockSlices : SetBlocks(blocks)
    \/ \E block \in BlockIds : AppendBlock(block)
    \/ AssignIDs

\* The same, and rendering.
NextFn ==
    \/ \E blocks \in BlockSlices : SetBlocks(blocks)
    \/ \E block \in BlockIds : AppendBlock(block)
    \/ AssignIDs
    \/ String

(***************************************************************************)
(* Types (package types), as far as the memory instructions look at them.  *)
(* A named type holds its definition, or none while it is unresolved.      *)
(***************************************************************************)
IntType(n) == [kind |-> "int", size |-> n]
FuncType == [kind |-> "func"]
NewPointer(elem) == [kind |-> "pointer", elem |-> elem]
NewArray(elem, len) == [kind |-> "array", elem |-> elem, len |-> len]
NewStruct(fields) == [kind |-> "struct", fields |-> fields]
NewNamed(name, def) == [kind |-> "named", name |-> name, def |-> <<def>>]
NewNamedUnresolved(name) == [kind |-> "named", name |-> name, def |-> <<>>]

I8 == IntType(8)
I32 == IntType(32)
A4I8 == NewArray(I8, 4)
A10I32 == NewArray(I32, 10)
StructI32A4I8 == NewStruct(<<I32, A4I8>>)
PI8 == NewPointer(I8)
StructI32PI8 == NewStruct(<<I32, PI8>>)
NamedN == NewNamed("N", StructI32A4I8)
NamedU == NewNamedUnresolved("U")
NamedM == NewNamed("M", NamedN)
NamedP == NewNamed("P", PI8)
StructNU == NewStruct(<<NamedN, NamedU>>)
A2StructNU == NewArray(StructNU, 2)

\* The types a source address points to.
ElemTypes ==
    { I8, I32, A4I8, A10I32, StructI32A4I8, PI8, StructI32PI8, NamedN, NamedU,
      NamedM, NamedP, StructNU, A2StructNU, FuncType }

(***************************************************************************)
(* Values: integer constants (constant.Int) and other, non-constant values.*)
(***************************************************************************)
ConstInt(x) == [vkind |-> "const.Int", typ |-> I32, x |-> x]
Local(typ, name) == [vkind |-> "local", typ |-> typ, name |-> name]

IndexValues == {ConstInt(0), ConstInt(1), ConstInt(2), ConstInt(3), Local(I32, "i")}

SrcValues ==
    {Local(NewPointer(t), "p") : t \in ElemTypes}
        \cup {Local(t, "v") : t \in {I32, A4I8, StructI32A4I8}}

MaxIndices == 3
MaxBlockInsts == 1

(***************************************************************************)
(* Instruction objects.  One record shape serves the three result-producing*)
(* memory instructions; a field an instruction does not have stays NoValue.*)
(***************************************************************************)
NoValue == [vkind |-> "nil"]
NoType == [kind |-> "nil"]
NoInst == [op |-> "nil"]

PanicNone == "none"
PanicSrcType == "invalid source address type"
PanicNamed == "invalid named type"
PanicPointer == "unable to index into element of pointer type"
PanicStructIndex == "invalid index type for structure element"
PanicRange == "index out of range"
PanicKind == "support for indexing element type not yet implemented"

Returned(i) == [panic |-> PanicNone, inst |-> i]
Panic(msg) == [panic |-> msg, inst |-> NoInst]

NewAlloca(elem) ==
    Returned([op |-> "alloca", parent |-> 0, name |-> Unnamed, typ |-> NewPointer(elem),
              elem |-> elem, src |-> NoValue, indices |-> <<>>, nelems |-> NoValue])

NewLoadUnchecked(src) ==
    Returned([op |-> "load", parent |-> 0, name |-> Unnamed,
              typ |-> IF src.typ.kind = "pointer" THEN src.typ.elem ELSE src.typ,
              elem |-> NoType, src |-> src, indices |-> <<>>, nelems |-> NoValue])

NewLoad(src) ==
    IF src.typ.kind # "pointer" THEN Panic(PanicSrcType)
    ELSE Returned([op |-> "load", parent |-> 0, name |-> Unnamed, typ |-> src.typ.elem,
                   elem |-> NoType, src |-> src, indices |-> <<>>, nelems |-> NoValue])

\* The loop of NewGetElementPtr from index i on, e the current type:
\* the type reached, or the panic raised on the way.
RECURSIVE gepLoop(_, _, _)
gepLoop(e, indices, i) ==
    IF i > Len(indices) THEN [panic |-> PanicNone, e |-> e]
    ELSE IF i = 1 THEN gepLoop(e, indices, i + 1)
    ELSE IF e.kind = "named" /\ e.def = <<>> THEN [panic |-> PanicNamed, e |-> e]
    ELSE LET t == IF e.kind = "named" THEN e.def[1] ELSE e
             index == indices[i]
         IN  CASE t.kind = "pointer" -> [panic |-> PanicPointer, e |-> t]
               [] t.kind = "array" -> gepLoop(t.elem, indices, i + 1)
               [] t.kind = "struct" ->
                    IF index.vkind # "const.Int"
                    THEN [panic |-> PanicStructIndex, e |-> t]
                    ELSE IF index.x < 0 \/ index.x >= Len(t.fields)
                    THEN [panic |-> PanicRange, e |-> t]
                    ELSE gepLoop(t.fields[index.x + 1], indices, i + 1)
               [] OTHER -> [panic |-> PanicKind, e |-> t]

GEPInst(src, indices, e) ==
    [op |-> "getelementptr", parent |-> 0, name |-> Unnamed, typ |-> NewPointer(e),
     elem |-> src.typ.elem, src |-> src, indices |-> indices, nelems |-> NoValue]

\* The walk taking the first index for a step like the later ones.
NewGetElementPtrNoSkip(src, indices) ==
    IF src.typ.kind # "pointer" THEN Panic(PanicSrcType)
    ELSE LET r == gepLoop(src.typ.elem, <<ConstInt(0)>> \o indices, 1)
         IN  IF r.panic # PanicNone THEN Panic(r.panic)
             ELSE Returned(GEPInst(src, indices, r.e))

\* The walk building the instruction although a step failed.
NewGetElementPtrIgnoring(src, indices) ==
    IF src.typ.kind # "pointer" THEN Panic(PanicSrcType)
    ELSE Returned(GEPInst(src, indices, gepLoop(src.typ.elem, indices, 1).e))

NewGetElementPtr(src, indices) ==
    IF src.typ.kind # "pointer" THEN Panic(PanicSrcType)
    ELSE LET r == gepLoop(src.typ.elem, indices, 1)
         IN  IF r.panic # PanicNone THEN Panic(r.panic)
             ELSE Returned(GEPInst(src, indices, r.e))

(***************************************************************************)
(* Calls of the constructors: the instruction returned, or the panic.      *)
(***************************************************************************)
CallNewAlloca(elem) ==
    LET r == NewAlloca(elem)
    IN  /\ inst' = r.inst
        /\ panicked' = r.panic
        /\ UNCHANGED <<argSrc, argIndices, binsts, fnVars, fltVars>>

CallNewLoad(src) ==
    LET r == NewLoad(src)
    IN  /\ inst' = r.inst
        /\ panicked' = r.panic
        /\ UNCHANGED <<argSrc, argIndices, binsts, fnVars, fltVars>>

CallNewGetElementPtr(src, indices) ==
    LET r == NewGetElementPtr(src, indices)
    IN  /\ inst' = r.inst
        /\ panicked' = r.panic
        /\ UNCHANGED <<argSrc, argIndices, binsts, fnVars, fltVars>>

\* BasicBlock.AppendInst: the instruction joins block 1, which becomes its parent.
AppendInst ==
    /\ inst # NoInst
    /\ inst.parent = 0
    /\ Len(binsts) < MaxBlockInsts
    /\ inst' = [inst EXCEPT !.parent = 1]
    /\ binsts' = Append(binsts, inst')
    /\ UNCHANGED <<argSrc, argIndices, panicked, fnVars, fltVars>>

(***************************************************************************)
(* The setters of an instruction object.                                   *)
(***************************************************************************)
Type(i) == i.typ

SetName(name) ==
    /\ inst # NoInst
    /\ inst' = [inst EXCEPT !.name = name]
    /\ UNCHANGED <<argSrc, argIndices, panicked, binsts, fnVars, fltVars>>

SetParent(parent) ==
    /\ inst # NoInst
    /\ inst' = [inst EXCEPT !.parent = parent]
    /\ UNCHANGED <<argSrc, argIndices, panicked, binsts, fnVars, fltVars>>

SetNElems(nelems) ==
    /\ inst.op = "alloca"
    /\ inst' = [inst EXCEPT !.nelems = nelems]
    /\ UNCHANGED <<argSrc, argIndices, panicked, binsts, fnVars, fltVars>>

InstLoad_SetSrc(src) ==
    /\ inst.op = "load"
    /\ inst' = [inst EXCEPT !.src = src]
    /\ UNCHANGED <<argSrc, argIndices, panicked, binsts, fnVars, fltVars>>

\* A SetSrc that derives the type again from the new source.
InstGetElementPtr_SetSrcRederiving(src) ==
    /\ inst.op = "getelementptr"
    /\ inst' = [inst EXCEPT !.src = src,
                            !.typ = IF src.typ.kind = "pointer"
                                    THEN NewPointer(gepLoop(src.typ.elem, inst.indices, 1).e)
                                    ELSE src.typ]
    /\ UNCHANGED <<argSrc, argIndices, panicked, binsts, fnVars, fltVars>>

InstGetElementPtr_SetSrc(src) ==
    /\ inst.op = "getelementptr"
    /\ inst' = [inst EXCEPT !.src = src]
    /\ UNCHANGED <<argSrc, argIndices, panicked, binsts, fnVars, fltVars>>

SetIndices(indices) ==
    /\ inst.op = "getelementptr"
    /\ inst' = [inst EXCEPT !.indices = indices]
    /\ UNCHANGED <<argSrc, argIndices, panicked, binsts, fnVars, fltVars>>

\* The arguments the setters and constructors are tried with in SpecInst.
SomeSrcs ==
    { Local(NewPointer(StructI32A4I8), "p"), Local(NewPointer(A10I32), "q"),
      Local(I32, "v") }
SomeIndices == { <<ConstInt(0)>>, <<ConstInt(0), ConstInt(1)>> }
SomeNames == {Unnamed, XName}
SomeNElems == {NoValue, ConstInt(2)}

InitMem(srcs, indexLists) ==
    /\ argSrc \in srcs
    /\ argIndices \in indexLists
    /\ inst = NoInst
    /\ panicked = PanicNone
    /\ binsts = <<>>

\* Construction from the arguments chosen at the start.
NextGEP ==
    \/ CallNewAlloca(argSrc.typ)
    \/ CallNewLoad(argSrc)
    \/ CallNewGetElementPtr(argSrc, argIndices)
    \/ AppendInst

\* Construction, then any setters.
NextInst ==
    \/ \E t \in {I32, A4I8} : CallNewAlloca(t)
    \/ \E src \in SomeSrcs : CallNewLoad(src)
    \/ \E src \in SomeSrcs, indices \in SomeIndices : CallNewGetElementPtr(src, indices)
    \/ \E name \in SomeNames : SetName(name)
    \/ \E parent \in {0, 1} : SetParent(parent)
    \/ \E nelems \in SomeNElems : SetNElems(nelems)
    \/ \E src \in SomeSrcs : InstLoad_SetSrc(src)
    \/ \E src \in SomeSrcs : InstGetElementPtr_SetSrc(src)
    \/ \E indices \in SomeIndices : SetIndices(indices)

(***************************************************************************)
(* Package floats: the binary16 pattern and its conversions.  A float32 is *)
(* its sign, its 8 exponent bits and its 23 mantissa bits; a float64 its   *)
(* sign, its 11 exponent bits and its 52 mantissa bits as two 26-bit limbs.*)
(***************************************************************************)
RECURSIVE Pow2(_)
Pow2(n) == IF n = 0 THEN 1 ELSE 2 * Pow2(n - 1)

NoFloat == [class |-> "none"]

HalfSign(a) == a \div Pow2(15)
HalfExp(a) == (a \div Pow2(10)) % Pow2(5)
HalfMant(a) == a % Pow2(10)

\* A subnormal's mantissa shifted left until its leading one leaves the 10-bit
\* field, the exponent lowered by one for each shift.
RECURSIVE normalize(_, _)
normalize(mant, e) ==
    IF mant >= Pow2(10) THEN [mant |-> mant % Pow2(10), e |-> e]
    ELSE normalize(mant * 2, e - 1)

\* The fields of the wider format: exponent re-biased, mantissa still 10 bits.
widenNoNormalize(a, bias, maxExp) ==
    LET sign == HalfSign(a)
        exp == HalfExp(a)
        mant == HalfMant(a)
    IN  CASE exp = Pow2(5) - 1 -> [sign |-> sign, exp |-> maxExp, mant |-> mant]
          [] exp = 0 /\ mant = 0 -> [sign |-> sign, exp |-> 0, mant |-> 0]
          [] OTHER -> [sign |-> sign, exp |-> exp - 15 + bias, mant |-> mant]

widen(a, bias, maxExp) ==
    LET sign == HalfSign(a)
        exp == HalfExp(a)
        mant == HalfMant(a)
    IN  CASE exp = Pow2(5) - 1 -> [sign |-> sign, exp |-> maxExp, mant |-> mant]
          [] exp = 0 /\ mant = 0 -> [sign |-> sign, exp |-> 0, mant |-> 0]
          [] exp = 0 ->
                LET n == normalize(mant, 1)
                IN  [sign |-> sign, exp |-> n.e - 15 + bias, mant |-> n.mant]
          [] OTHER -> [sign |-> sign, exp |-> exp - 15 + bias, mant |-> mant]

Float32(a) ==
    LET w == widen(a, 127, 255)
    IN  [sign |-> w.sign, exp |-> w.exp, mant |-> w.mant * Pow2(23 - 10)]

Float64(a) ==
    LET w == widen(a, 1023, 2047)
    IN  [sign |-> w.sign, exp |-> w.exp, hi |-> w.mant * Pow2(26 - 10), lo |-> 0]

CallFloat32 ==
    /\ f32' = Float32(hbits)
    /\ UNCHANGED <<hbits, f64, fnVars, memVars>>

CallFloat64 ==
    /\ f64' = Float64(hbits)
    /\ UNCHANGED <<hbits, f32, fnVars, memVars>>

InitFlt(patterns) ==
    /\ hbits \in patterns
    /\ f32 = NoFloat
    /\ f64 = NoFloat

NextFlt ==
    \/ CallFloat32
    \/ CallFloat64

(***************************************************************************)
(* The specifications.                                                     *)
(***************************************************************************)
InitOther ==
    /\ InitFnWith({PrintfSig}, OneHeap)
    /\ InitMem({Local(I32, "v")}, {<<>>})
    /\ InitFlt({0})

\* Attaching and numbering, on one function over any heap of blocks.
InitFn ==
    /\ InitFnWith({PrintfSig}, AllHeaps)
    /\ InitMem({Local(I32, "v")}, {<<>>})
    /\ InitFlt({0})

SpecFn == InitFn /\ [][NextIDs]_vars

\* Attaching, numbering and rendering, on a function of any signature.
InitSig ==
    /\ InitFnWith(Sigs, OneHeap)
    /\ InitMem({Local(I32, "v")}, {<<>>})
    /\ InitFlt({0})

SpecSig == InitSig /\ [][NextFn]_vars

\* The constructors on every source value and index list.
InitGEP ==
    /\ InitFnWith({PrintfSig}, OneHeap)
    /\ InitMem(SrcValues, SeqsUpTo(IndexValues, MaxIndices))
    /\ InitFlt({0})

SpecGEP == InitGEP /\ [][NextGEP]_vars

\* The constructors and then the setters.
SpecInst == InitOther /\ [][NextInst]_vars

\* The conversions of every binary16 pattern.
InitAllPatterns ==
    /\ InitFnWith({PrintfSig}, OneHeap)
    /\ InitMem({Local(I32, "v")}, {<<>>})
    /\ InitFlt(0..(Pow2(16) - 1))

SpecFlt == InitAllPatterns /\ [][NextFlt]_vars

(***************************************************************************)
(* Reading identifiers back: the walk over a function body and the integer *)
(* a decimal name denotes.                                                 *)
(***************************************************************************)
IsLocalID(name) == name # <<>> /\ \A i \in 1..Len(name) : name[i] \in Range(Digits)

DigitValue(c) == CHOOSE d \in 0..9 : Digits[d + 1] = c

RECURSIVE Atoi(_)
Atoi(name) ==
    IF Len(name) = 0 THEN 0
    ELSE 10 * Atoi(SubSeq(name, 1, Len(name) - 1)) + DigitValue(name[Len(name)])

\* An entity is a block <<b, 0>> or the i-th instruction <<b, i>> of a block.
Entities(heap) ==
    {<<b, 0>> : b \in BlockIds}
        \cup UNION {{<<b, i>> : i \in 1..Len(heap[b].insts)} : b \in BlockIds}

NameOf(heap, e) ==
    IF e[2] = 0 THEN heap[e[1]].name ELSE heap[e[1]].insts[e[2]].name

ProducesResult(heap, e) == e[2] = 0 \/ heap[e[1]].insts[e[2]].op # "store"

RECURSIVE Walk(_, _)
Walk(heap, blocks) ==
    IF blocks = <<>> THEN <<>>
    ELSE LET b == Head(blocks)
         IN  <<<<b, 0>>>> \o [i \in 1..Len(heap[b].insts) |-> <<b, i>>]
                 \o Walk(heap, Tail(blocks))

\* A step that is a call of SetBlocks: with the list the function then holds.
AnySetBlocks == f'.blocks \in BlockSlices /\ SetBlocks(f'.blocks)
AnyAppendBlock == \E block \in BlockIds : AppendBlock(block)

(***************************************************************************)
(* C2.  After SetBlocks or AssignIDs on a freshly built function (counter  *)
(* 0, nothing numbered yet), along the walk (blocks in order, the          *)
(* instructions of each block in order) every entity that was unnamed and  *)
(* produces a result carries a decimal identifier, these integers start at *)
(* 0 and strictly increase, a store has no name, and every entity that had *)
(* a name keeps it.                                                        *)
(***************************************************************************)
C2_Numbered(before, after, blocks) ==
    LET walk == Walk(after, blocks)
        wasUnnamed(e) == ProducesResult(before, e) /\ NameOf(before, e) = Unnamed
        fresh == SelectSeq(walk, wasUnnamed)
    IN  /\ \A k \in 1..Len(fresh) : IsLocalID(NameOf(after, fresh[k]))
        /\ Len(fresh) > 0 => Atoi(NameOf(after, fresh[1])) = 0
        /\ \A k \in 1..(Len(fresh) - 1) :
              Atoi(NameOf(after, fresh[k])) < Atoi(NameOf(after, fresh[k + 1]))
        /\ \A k \in 1..Len(walk) :
              /\ ~ProducesResult(after, walk[k]) => NameOf(after, walk[k]) = Unnamed
              /\ NameOf(before, walk[k]) # Unnamed
                    => NameOf(after, walk[k]) = NameOf(before, walk[k])

C3_Unique ==
    \A e1 \in Entities(blk) :
        IsLocalID(NameOf(blk, e1)) =>
            /\ Atoi(NameOf(blk, e1)) < f.localID
            /\ \A e2 \in Entities(blk) :
                  e1 # e2 /\ IsLocalID(NameOf(blk, e2))
                      => Atoi(NameOf(blk, e1)) # Atoi(NameOf(blk, e2))

C3_Theorem == []C3_Unique /\ [][f'.localID >= f.localID]_vars

\* Two assignment passes have run: every block of the heap is numbered, and
\* the body's second block holds a smaller number than its first.
C3_Witness ==
    /\ Len(f.blocks.elems) = 2
    /\ IsLocalID(blk[f.blocks.elems[1]].name)
    /\ IsLocalID(blk[f.blocks.elems[2]].name)
    /\ Atoi(blk[f.blocks.elems[2]].name) < Atoi(blk[f.blocks.elems[1]].name)

(***************************************************************************)
(* C10.  AppendBlock changes no name and not the counter.  AssignIDs keeps *)
(* every identifier already assigned and gives the entities it numbers     *)
(* integers above all integers assigned before.                            *)
(***************************************************************************)
C10_AppendKeeps ==
    /\ f'.localID = f.localID
    /\ \A e \in Entities(blk) : NameOf(blk', e) = NameOf(blk, e)

C10_AssignKeeps ==
    \A e \in Entities(blk) :
        /\ IsLocalID(NameOf(blk, e)) => NameOf(blk', e) = NameOf(blk, e)
        /\ NameOf(blk', e) # NameOf(blk, e) =>
              /\ NameOf(blk, e) = Unnamed
              /\ IsLocalID(NameOf(blk', e))
              /\ \A e0 \in Entities(blk) :
                    IsLocalID(NameOf(blk, e0))
                        => Atoi(NameOf(blk', e)) > Atoi(NameOf(blk, e0))

C10_Theorem ==
    [][/\ AnyAppendBlock => C10_AppendKeeps
       /\ AssignIDs => C10_AssignKeeps]_vars

\* AppendBlock has just added an unnamed block behind a numbered one.
C10_Witness ==
    /\ ret = VoidRet
    /\ f.localID > 0
    /\ Len(f.blocks.elems) >= 2
    /\ IsLocalID(blk[f.blocks.elems[1]].name)
    /\ blk[f.blocks.elems[Len(f.blocks.elems)]].name = Unnamed

(***************************************************************************)
(* Reading a rendered function back: its first word, its parameter list    *)
(* (the tokens between the parentheses) and its body lines.                *)
(***************************************************************************)
IndexOf(text, token) == CHOOSE i \in 1..Len(text) : text[i] = token

ParamListOf(text) == SubSeq(text, IndexOf(text, "(") + 1, IndexOf(text, ")") - 1)

IsDeclarationText(text) ==
    /\ Head(text) = "declare "
    /\ text[Len(text)] = ")"

IsDefinitionText(text, blocks) ==
    LET open == IndexOf(text, " {\n")
    IN  /\ Head(text) = "define "
        /\ open = IndexOf(text, ")") + 1
        /\ Len(text) = open + 2 * Len(blocks) + 1
        /\ \A i \in 1..Len(blocks) :
              /\ text[open + 2 * i - 1] = BlockText(blocks[i])
              /\ text[open + 2 * i] = "\n"
        /\ text[Len(text)] = "}"

(***************************************************************************)
(* C6.  The rendered parameter list is the parameter types joined by ", ", *)
(* followed by "..." exactly when the signature is variadic, with ", "     *)
(* before "..." exactly when there is at least one fixed parameter.        *)
(***************************************************************************)
C6_ParamList(list, sig) ==
    LET n == Len(sig.params)
        joined == IF n = 0 THEN 0 ELSE 2 * n - 1
    IN  /\ \A k \in 1..n : list[2 * k - 1] = sig.params[k]
        /\ \A k \in 1..(n - 1) : list[2 * k] = ", "
        /\ ("..." \in Range(list)) <=> sig.variadic
        /\ ~sig.variadic => Len(list) = joined
        /\ sig.variadic =>
              /\ list[Len(list)] = "..."
              /\ Len(list) = (IF n = 0 THEN 1 ELSE joined + 2)
              /\ (Len(list) > 1 /\ list[Len(list) - 1] = ", ") <=> n > 0

C6_Theorem == ret.kind = "text" => C6_ParamList(ParamListOf(ret.text), f.sig)

\* String has rendered a variadic function without fixed parameters: "(...)".
C6_Witness ==
    /\ ret.kind = "text"
    /\ f.sig.variadic
    /\ f.sig.params = <<>>
    /\ ParamListOf(ret.text) = <<"...">>

(***************************************************************************)
(* C7.  A function created by NewFunction has no block list (nil) and      *)
(* renders as a declaration.  After AppendBlock, and after SetBlocks with  *)
(* a slice that is not nil, it renders as a definition: "define", the      *)
(* signature, " {", each block on a line of its own, "}"; so also when the *)
(* list is empty.  A nil slice given to SetBlocks is no block list: the    *)
(* function renders as a declaration again.  String renders a declaration  *)
(* exactly when the block list is nil.                                     *)
(***************************************************************************)
C7_Rendered ==
    ret.kind = "text" =>
        IF f.blocks.isNil THEN IsDeclarationText(ret.text)
        ELSE IsDefinitionText(ret.text, f.blocks.elems)

C7_Theorem ==
    /\ f.blocks = NilSlice /\ IsDeclarationText(FunctionString(f))
    /\ []C7_Rendered
    /\ [][(AnyAppendBlock \/ AnySetBlocks) =>
             IF f'.blocks = NilSlice /\ ~AnyAppendBlock
             THEN IsDeclarationText(FunctionString(f'))
             ELSE IsDefinitionText(FunctionString(f'), f'.blocks.elems)]_vars

\* String has rendered a function whose block list is empty and not nil.
C7_Witness ==
    /\ ret.kind = "text"
    /\ ~f.blocks.isNil
    /\ f.blocks.elems = <<>>
    /\ ret.text = <<"define ", "i32", " ", "@", "printf", "(", "i8*", ", ", "...", ")",
                    " {\n", "}">>

(***************************************************************************)
(* The walk through a type as the claims word it: the type reached before  *)
(* index i is looked at, NoType once a step had no type to go to.          *)
(***************************************************************************)
Resolved(t) == IF t.kind = "named" /\ t.def # <<>> THEN t.def[1] ELSE t

IsConstant(index) == index.vkind = "const.Int"

\* The four failures of a step that the claims list.
ListedFailure(current, index) ==
    \/ current.kind = "named" /\ current.def = <<>>
    \/ Resolved(current).kind = "pointer"
    \/ Resolved(current).kind = "struct" /\ ~IsConstant(index)
    \/ Resolved(current).kind \notin {"pointer", "array", "struct"}

\* A constant naming no field of the struct.
NoSuchField(current, index) ==
    /\ Resolved(current).kind = "struct"
    /\ IsConstant(index)
    /\ index.x + 1 \notin 1..Len(Resolved(current).fields)

StepType(current, index) ==
    IF ListedFailure(current, index) \/ NoSuchField(current, index) THEN NoType
    ELSE IF Resolved(current).kind = "array" THEN Resolved(current).elem
    ELSE Resolved(current).fields[index.x + 1]

RECURSIVE TypeBefore(_, _, _)
TypeBefore(t0, indices, i) ==
    IF i <= 2 THEN t0
    ELSE StepType(TypeBefore(t0, indices, i - 1), indices[i - 1])

TypeReached(t0, indices) == TypeBefore(t0, indices, Len(indices) + 1)

(***************************************************************************)
(* C1.  A getelementptr that NewGetElementPtr returned has the type        *)
(* pointer-to Tn, Tn reached from the source's element type T0 by skipping *)
(* the first index and stepping, for each later index, to the element type *)
(* of an array or to the field of a struct at the constant's position,     *)
(* named types resolved.  With at most one index Tn is T0.                 *)
(***************************************************************************)
C1_Theorem ==
    inst.op = "getelementptr" =>
        /\ Type(inst) = NewPointer(TypeReached(inst.src.typ.elem, inst.indices))
        /\ TypeReached(inst.src.typ.elem, inst.indices) # NoType
        /\ Len(inst.indices) <= 1 => Type(inst) = inst.src.typ
        /\ (inst.src.typ.elem = StructI32A4I8
                /\ inst.indices = <<ConstInt(0), ConstInt(1), ConstInt(2)>>)
              => Type(inst) = NewPointer(I8)
        /\ (inst.src.typ.elem = A10I32 /\ inst.indices = <<ConstInt(0), ConstInt(3)>>)
              => Type(inst) = NewPointer(I32)

\* The getelementptr of the example: {i32, [4 x i8]}* indexed by 0, 1, 2.
C1_Witness ==
    /\ inst.op = "getelementptr"
    /\ inst.src.typ = NewPointer(StructI32A4I8)
    /\ inst.indices = <<ConstInt(0), ConstInt(1), ConstInt(2)>>
    /\ Type(inst) = NewPointer(I8)

(***************************************************************************)
(* C4.  NewLoad and NewGetElementPtr on a source that is no pointer panic  *)
(* and return no instruction; the block's instruction list, the function   *)
(* and its blocks are as before, and no load or getelementptr over such a  *)
(* source is ever in the block.                                            *)
(***************************************************************************)
C4_Rejected ==
    /\ panicked' = PanicSrcType
    /\ inst' = NoInst
    /\ binsts' = binsts
    /\ f' = f
    /\ blk' = blk

C4_BlockWellTyped ==
    \A i \in 1..Len(binsts) :
        binsts[i].op \in {"load", "getelementptr"} => binsts[i].src.typ.kind = "pointer"

C4_Theorem ==
    /\ []C4_BlockWellTyped
    /\ [][(CallNewLoad(argSrc) \/ CallNewGetElementPtr(argSrc, argIndices))
             /\ argSrc.typ.kind # "pointer" => C4_Rejected]_vars

\* A constructor has refused a struct-typed source while the block holds an
\* instruction appended earlier.
C4_Witness ==
    /\ argSrc.typ = StructI32A4I8
    /\ panicked = PanicSrcType
    /\ inst = NoInst
    /\ Len(binsts) = 1

(***************************************************************************)
(* C5.  NewGetElementPtr panics and returns no instruction when the walk   *)
(* comes, at an index after the first, to a pointer type, to a struct with *)
(* an index that is no integer constant, to an unresolved named type or to *)
(* a kind other than array and struct.  With at most one index and a       *)
(* pointer source it returns an instruction.                               *)
(***************************************************************************)
C5_WalkFails(t0, indices) ==
    \E i \in 2..Len(indices) :
        /\ TypeBefore(t0, indices, i) # NoType
        /\ ListedFailure(TypeBefore(t0, indices, i), indices[i])

C5_Theorem ==
    [][CallNewGetElementPtr(argSrc, argIndices) /\ argSrc.typ.kind = "pointer" =>
          /\ C5_WalkFails(argSrc.typ.elem, argIndices)
                => panicked' # PanicNone /\ inst' = NoInst
          /\ Len(argIndices) <= 1
                => panicked' = PanicNone /\ inst'.op = "getelementptr"]_vars

\* A second level of indexing into the i8* field of {i32, i8*} has panicked.
C5_Witness ==
    /\ argSrc.typ = NewPointer(StructI32PI8)
    /\ argIndices = <<ConstInt(0), ConstInt(1), ConstInt(0)>>
    /\ panicked = PanicPointer
    /\ inst = NoInst

(***************************************************************************)
(* C9.  A setter changes the field it names and nothing else of the        *)
(* instruction: its type and its source element type stay as constructed.  *)
(***************************************************************************)
AnySetter ==
    \/ \E name \in SomeNames : SetName(name)
    \/ \E parent \in {0, 1} : SetParent(parent)
    \/ \E nelems \in SomeNElems : SetNElems(nelems)
    \/ \E src \in SomeSrcs : InstLoad_SetSrc(src)
    \/ \E src \in SomeSrcs : InstGetElementPtr_SetSrc(src)
    \/ \E indices \in SomeIndices : SetIndices(indices)

C9_OneField ==
    \E field \in {"name", "parent", "nelems", "src", "indices"} :
        \A g \in DOMAIN inst : g # field => inst'[g] = inst[g]

C9_Theorem ==
    [][AnySetter =>
          /\ Type(inst') = Type(inst)
          /\ inst'.elem = inst.elem
          /\ inst'.op = inst.op
          /\ C9_OneField]_vars

\* A getelementptr built over {i32, [4 x i8]}* with indices 0, 1 whose source is
\* now an i32 and whose indices are now 0: the type is still [4 x i8]*.
C9_Witness ==
    /\ inst.op = "getelementptr"
    /\ inst.src = Local(I32, "v")
    /\ inst.indices = <<ConstInt(0)>>
    /\ inst.elem = StructI32A4I8
    /\ Type(inst) = NewPointer(A4I8)

(***************************************************************************)
(* The number a bit pattern denotes: zero, infinity or NaN, or the finite  *)
(* number (-1)^sign * m * 2^e with m odd, which is its only such form.     *)
(***************************************************************************)
RECURSIVE OddForm(_, _)
OddForm(m, e) == IF m % 2 = 0 THEN OddForm(m \div 2, e + 1) ELSE [m |-> m, e |-> e]

Finite(sign, m, e) ==
    [class |-> "finite", sign |-> sign, m |-> OddForm(m, e).m, e |-> OddForm(m, e).e]
Zero(sign) == [class |-> "zero", sign |-> sign, m |-> 0, e |-> 0]
Infinity(sign) == [class |-> "inf", sign |-> sign, m |-> 0, e |-> 0]
NaN == [class |-> "nan", sign |-> 0, m |-> 0, e |-> 0]
\* A float64 with more significant bits than any binary16 number has.
TooFine == [class |-> "fine", sign |-> 0, m |-> 0, e |-> 0]

HalfValue(a) ==
    LET sign == a \div 32768
        exp == (a \div 1024) % 32
        mant == a % 1024
    IN  IF exp = 31 THEN (IF mant = 0 THEN Infinity(sign) ELSE NaN)
        ELSE IF exp = 0 THEN (IF mant = 0 THEN Zero(sign) ELSE Finite(sign, mant, -24))
        ELSE Finite(sign, 1024 + mant, exp - 25)

Value32(x) ==
    IF x.exp = 255 THEN (IF x.mant = 0 THEN Infinity(x.sign) ELSE NaN)
    ELSE IF x.exp = 0 THEN (IF x.mant = 0 THEN Zero(x.sign) ELSE Finite(x.sign, x.mant, -149))
    ELSE Finite(x.sign, 8388608 + x.mant, x.exp - 150)

Value64(x) ==
    IF x.exp = 2047 THEN (IF x.hi = 0 /\ x.lo = 0 THEN Infinity(x.sign) ELSE NaN)
    ELSE IF x.lo # 0 THEN TooFine
    ELSE IF x.exp = 0 THEN (IF x.hi = 0 THEN Zero(x.sign) ELSE Finite(x.sign, x.hi, -1048))
    ELSE Finite(x.sign, 67108864 + x.hi, x.exp - 1049)

\* The golden table of the tests: the pattern and the number wanted.
golden ==
    { <<15360, Finite(0, 1, 0)>>,        \* 3C00  1
      <<16384, Finite(0, 2, 0)>>,        \* 4000  2
      <<49152, Finite(1, 2, 0)>>,        \* C000  -2
      <<31742, Finite(0, 65472, 0)>>,    \* 7BFE  65472
      <<31743, Finite(0, 65504, 0)>>,    \* 7BFF  65504
      <<64511, Finite(1, 65504, 0)>>,    \* FBFF  -65504
      <<0, Zero(0)>>,                    \* 0000  0
      <<32768, Zero(1)>>,                \* 8000  -0
      <<31744, Infinity(0)>>,            \* 7C00  +Inf
      <<64512, Infinity(1)>>,            \* FC00  -Inf
      <<23439, Finite(0, 1935, -3)>>,    \* 5B8F  241.875
      <<18632, Finite(0, 153, -4)>> }    \* 48C8  9.5625

(***************************************************************************)
(* C8.  For every binary16 pattern that is no NaN, Float32 and Float64     *)
(* return the number the pattern denotes, the sign of a zero and of an     *)
(* infinity kept, so the two results are equal; the results of the golden  *)
(* patterns are the numbers wanted; every pattern, NaN included, yields a  *)
(* bit pattern of the wider format.                                        *)
(***************************************************************************)
C8_IsFloat32(x) == x.sign \in 0..1 /\ x.exp \in 0..255 /\ x.mant \in 0..8388607

C8_IsFloat64(x) ==
    x.sign \in 0..1 /\ x.exp \in 0..2047 /\ x.hi \in 0..67108863 /\ x.lo \in 0..67108863

C8_Theorem ==
    /\ f32 # NoFloat =>
          /\ C8_IsFloat32(f32)
          /\ Value32(f32) = HalfValue(hbits)
          /\ \A g \in golden : g[1] = hbits => Value32(f32) = g[2]
    /\ f64 # NoFloat =>
          /\ C8_IsFloat64(f64)
          /\ Value64(f64) = HalfValue(hbits)
          /\ \A g \in golden : g[1] = hbits => Value64(f64) = g[2]
    /\ (f32 # NoFloat /\ f64 # NoFloat) => Value32(f32) = Value64(f64)

\* Both conversions have run on the smallest subnormal, 2^-24.
C8_Witness ==
    /\ hbits = 1
    /\ f32 # NoFloat
    /\ f64 # NoFloat
    /\ Value32(f32) = Finite(0, 1, -24)
    /\ Value64(f64) = Finite(0, 1, -24)

====
